---- MODULE Spec2Model ----
(***************************************************************************)
(* Model of src/main.py: the daily OS-version report.  The persisted state *)
(* is the JSON document data/os_versions.json (a dict from "YYYY-MM-DD"    *)
(* keys to snapshots); one run of main() scrapes, loads the history,       *)
(* detects changes against yesterday's entry, saves today's snapshot and   *)
(* sends the report.                                                       *)
(***************************************************************************)
EXTENDS Integers, Sequences, FiniteSets, TLC

(***************************************************************************)
(* Bounds of the model.                                                    *)
(***************************************************************************)
\* save_history is exercised with wall-clock dates day 1 .. NumDays
NumDays == 8

\* the runs of main() happen on days 1 .. MaxDay
MaxDay == 4

\* the day on which detect_changes is exercised with drawn inputs
DiffToday == 6

(***************************************************************************)
(* Program constants.                                                      *)
(***************************************************************************)
\* "Keep only 7 days": if len(history) > 7 ... sorted(history.keys())[:-7]
KEEP_DAYS == 7

\* the placeholder every scraper uses for a value it did not observe
SENTINEL == "-"

\* data.update(...) order in main(): the key order of the snapshot dict
PLATFORMS == <<"macOS", "iPadOS", "Windows", "ChromeOS">>

PlatformSet == {PLATFORMS[i] : i \in 1..Len(PLATFORMS)}

\* the three keys of every per-platform dict, in the order the scrapers build them
FIELDS == <<"stable", "beta", "beta_release_date">>

FieldSet == {FIELDS[i] : i \in 1..Len(FIELDS)}

(***************************************************************************)
(* Dates.  datetime.now() is a day ordinal n; day 0 is 26 Dec 2025, so the *)
(* modelled days straddle a month and a year boundary.  strftime produces  *)
(* the key as a string, modelled as the sequence of its character codes,   *)
(* and sorted() compares those strings lexicographically.                  *)
(***************************************************************************)
Civil(n) ==
    IF n <= 5 THEN [y |-> 2025, m |-> 12, d |-> 26 + n]
              ELSE [y |-> 2026, m |-> 1, d |-> n - 5]

Pad2(v) == <<48 + (v \div 10), 48 + (v % 10)>>

Pad4(v) == <<48 + (v \div 1000), 48 + ((v \div 100) % 10),
             48 + ((v \div 10) % 10), 48 + (v % 10)>>

\* variant: the key written day first, strftime("%d-%m-%Y")
StrfDmy(n) ==
    LET c == Civil(n) IN Pad2(c.d) \o <<45>> \o Pad2(c.m) \o <<45>> \o Pad4(c.y)

\* datetime.strftime("%Y-%m-%d")
StrfYmd(n) ==
    LET c == Civil(n) IN Pad4(c.y) \o <<45>> \o Pad2(c.m) \o <<45>> \o Pad2(c.d)

RECURSIVE StrLessFrom(_, _, _)
StrLessFrom(a, b, i) ==
    IF i > Len(b) THEN FALSE
    ELSE IF i > Len(a) THEN TRUE
    ELSE IF a[i] # b[i] THEN a[i] < b[i]
    ELSE StrLessFrom(a, b, i + 1)

\* Python's str ordering: the first differing character decides, a proper
\* prefix is smaller
StrLess(a, b) == StrLessFrom(a, b, 1)

RECURSIVE InsertSorted(_, _, _)
\* s with x put before its first element that is not smaller than x
InsertSorted(s, x, i) ==
    IF i > Len(s) THEN Append(s, x)
    ELSE IF StrLess(s[i], x) THEN InsertSorted(s, x, i + 1)
    ELSE SubSeq(s, 1, i - 1) \o <<x>> \o SubSeq(s, i, Len(s))

RECURSIVE SortedSeq(_)
\* sorted(keys): ascending string order
SortedSeq(S) ==
    IF S = {} THEN << >>
    ELSE LET x == CHOOSE y \in S : TRUE
         IN  InsertSorted(SortedSeq(S \ {x}), x, 1)

(***************************************************************************)
(* Snapshots: dict platform -> dict field -> string.                       *)
(***************************************************************************)
Rec(s, b, d) == [f \in FieldSet |->
                   IF f = "stable" THEN s ELSE IF f = "beta" THEN b ELSE d]

SentinelRec == Rec(SENTINEL, SENTINEL, SENTINEL)

EmptyDict == [k \in {} |-> SentinelRec]

(***************************************************************************)
(* The history file.  st = "absent": no file; "json": a complete JSON      *)
(* document holding hist; "truncated": the file was opened for writing     *)
(* (which empties it) and the document was not completely written.         *)
(***************************************************************************)
AbsentFile == [st |-> "absent", hist |-> EmptyDict]

JsonFile(h) == [st |-> "json", hist |-> h]

TruncatedFile == [st |-> "truncated", hist |-> EmptyDict]

\* load_history(): {} when the file does not exist, json.load otherwise;
\* json.load raises JSONDecodeError on an empty or incomplete document
load_history(f) ==
    IF f.st = "absent" THEN [raised |-> FALSE, value |-> EmptyDict]
    ELSE IF f.st = "json" THEN [raised |-> FALSE, value |-> f.hist]
    ELSE [raised |-> TRUE, value |-> EmptyDict]

\* history[today] = data
DictSet(h, k, v) == [x \in (DOMAIN h) \cup {k} |-> IF x = k THEN v ELSE h[x]]

\* the keys  sorted(history.keys())[:-7]  selects
EvictedKeys(h) ==
    LET ks == SortedSeq(DOMAIN h)
    IN  {ks[i] : i \in 1..(Len(ks) - KEEP_DAYS)}

\* if len(history) > 7: for k in sorted(history.keys())[:-7]: del history[k]
Retain(h) ==
    IF Cardinality(DOMAIN h) > KEEP_DAYS
    THEN [x \in (DOMAIN h) \ EvictedKeys(h) |-> h[x]]
    ELSE h

\* variant: an entry already present for today is kept, not overwritten
NewHistoryKeep(h, now, data) ==
    Retain(IF StrfYmd(now) \in DOMAIN h THEN h ELSE DictSet(h, StrfYmd(now), data))

\* variant: room is made before the insertion, whenever the store is full
NewHistoryRoomFirst(h, now, data) ==
    LET ks == SortedSeq(DOMAIN h)
        room == IF Len(ks) >= KEEP_DAYS
                THEN [x \in (DOMAIN h) \ {ks[i] : i \in 1..(Len(ks) - KEEP_DAYS + 1)} |-> h[x]]
                ELSE h
    IN  DictSet(room, StrfYmd(now), data)

\* save_history lines 124-131: the dict that is about to be written
NewHistory(h, now, data) == Retain(DictSet(h, StrfYmd(now), data))

\* save_history(data) run to completion with datetime.now() = now
save_history(f, now, data) ==
    LET l == load_history(f)
    IN  IF l.raised THEN [raised |-> TRUE, file |-> f]
        ELSE [raised |-> FALSE, file |-> JsonFile(NewHistory(l.value, now, data))]

(***************************************************************************)
(* Scrapers.  A fetch is modelled by what requests.get delivers: an error  *)
(* (the call raises, e.g. a connection error) or the parsed content.  A    *)
(* scraper returns [raised, value].                                        *)
(***************************************************************************)
Raised == [raised |-> TRUE, value |-> EmptyDict]

Returned(v) == [raised |-> FALSE, value |-> v]

\* An RSS item: titled = FALSE when the item has no <title> (item.title is
\* None); os / beta: which of the title tests it passes; text: what the
\* regular expression (or the title fallback) yields; date: the pubDate as
\* dateparser + strftime("%d %b %Y") render it, "unparsable" when
\* dateparser.parse raises.
Item(titled, os, beta, text, date) ==
    [titled |-> titled, os |-> os, beta |-> beta, text |-> text, date |-> date]

\* dict.setdefault(k, v) on a partially filled per-platform dict
SetDefault(r, k, v) == IF k \in DOMAIN r THEN r ELSE DictSet(r, k, v)

RECURSIVE AppleItems(_, _, _, _, _, _)
\* the inner "for item in items" loop of scrape_apple_versions for one
\* os_name; acc is versions[os_name]
AppleItems(items, i, os_name, acc, beta_found, stable_found) ==
    IF i > Len(items) THEN Returned(acc)
    ELSE LET item == items[i] IN
         IF ~item.titled THEN Raised
         ELSE IF item.os = os_name /\ item.beta /\ ~beta_found
         THEN IF item.date = "unparsable" THEN Raised
              ELSE AppleItems(items, i + 1, os_name,
                      DictSet(DictSet(acc, "beta", item.text),
                              "beta_release_date", item.date),
                      TRUE, stable_found)
         ELSE IF item.os = os_name /\ ~item.beta /\ ~stable_found
         THEN AppleItems(items, i + 1, os_name,
                      DictSet(acc, "stable", item.text), beta_found, TRUE)
         ELSE AppleItems(items, i + 1, os_name, acc, beta_found, stable_found)

\* one iteration of "for os_name in versions.keys()" with the setdefaults
AppleOne(items, os_name) ==
    LET r == AppleItems(items, 1, os_name, [k \in {} |-> SENTINEL], FALSE, FALSE)
    IN  IF r.raised THEN Raised
        ELSE Returned(SetDefault(SetDefault(SetDefault(r.value,
                 "stable", SENTINEL), "beta", SENTINEL),
                 "beta_release_date", SENTINEL))

\* scrape_apple_versions(): feed is [status, items], status = "error" when
\* requests.get raises; there is no try/except, a raise propagates to main()
scrape_apple_versions(feed) ==
    IF feed.status = "error" THEN Raised
    ELSE LET m == AppleOne(feed.items, "macOS")
             p == AppleOne(feed.items, "iPadOS")
         IN  IF m.raised \/ p.raised THEN Raised
             ELSE Returned([k \in {"macOS", "iPadOS"} |->
                              IF k = "macOS" THEN m.value ELSE p.value])

\* scrape_windows_versions(): page is "error" (requests.get raises),
\* "no heading" (no <h2> matching "Windows 11"), "no match" (the heading
\* does not match the version regex) or the text the regex matches
scrape_windows_versions(page) ==
    IF page = "error" THEN Raised
    ELSE LET stable_version ==
                 IF page \in {"no heading", "no match"} THEN SENTINEL ELSE page
         IN  Returned([k \in {"Windows"} |->
                          Rec(stable_version, SENTINEL, SENTINEL)])

\* a key a Chromium Dash entry does not carry
Missing == "<missing>"

\* dict.get(k, default)
Get(d, k, default) == IF k \in DOMAIN d /\ d[k] # Missing THEN d[k] ELSE default

\* next((x for x in data if x.get("channel", "").lower() == ch), {})
FirstChannel(data, ch) ==
    IF \E i \in 1..Len(data) : data[i].channel = ch
    THEN data[CHOOSE i \in 1..Len(data) :
                /\ data[i].channel = ch
                /\ \A j \in 1..(i - 1) : data[j].channel # ch]
    ELSE [k \in {} |-> Missing]

\* f"Chrome {milestone}"
ChromeLabel(v) ==
    IF v = "141" THEN "Chrome 141" ELSE IF v = "142" THEN "Chrome 142" ELSE "Chrome ?"

\* datetime.strptime(s, "%Y-%m-%d").strftime("%d %b %Y"); a string that does
\* not parse is kept as it is (except Exception: pass)
ChromeDate(s) ==
    IF s = "2026-01-06" THEN "06 Jan 2026"
    ELSE IF s = "2025-12-02" THEN "02 Dec 2025" ELSE s

\* scrape_chromeos_versions(): resp is [status, entries], status = "error"
\* (requests.get raises), "not json" (response.json() raises) or "json";
\* the whole body is inside try/except
scrape_chromeos_versions(resp) ==
    IF resp.status \in {"error", "not json"}
    THEN Returned([k \in {"ChromeOS"} |-> SentinelRec])
    ELSE LET stable == FirstChannel(resp.entries, "stable")
             beta == FirstChannel(resp.entries, "beta")
             stable_version == Get(stable, "milestone", SENTINEL)
             beta_version == Get(beta, "milestone", SENTINEL)
             promo == Get(beta, "beta_promotion", "")
             raw == IF promo # "" THEN promo ELSE Get(beta, "branch_point", SENTINEL)
             beta_date == IF raw # "" THEN ChromeDate(raw) ELSE raw
         IN  Returned([k \in {"ChromeOS"} |->
                 Rec(IF stable_version # SENTINEL THEN ChromeLabel(stable_version)
                                                  ELSE SENTINEL,
                     IF beta_version # SENTINEL THEN ChromeLabel(beta_version)
                                                ELSE SENTINEL,
                     IF beta_date # "" THEN beta_date ELSE SENTINEL)])

\* dict.update(other)
DictUpdate(d, other) ==
    [k \in (DOMAIN d) \cup (DOMAIN other) |->
        IF k \in DOMAIN other THEN other[k] ELSE d[k]]

(***************************************************************************)
(* Change detection and the text part of the report.                       *)
(***************************************************************************)
\* the f-string appended to changes: built from os_name and the three values
ChangeLine(os_name, vals) ==
    <<"update", os_name, vals["stable"], vals["beta"], vals["beta_release_date"]>>

\* variant: the baseline key is today's, no timedelta
TodayKey(now) == StrfYmd(now)

\* (datetime.now() - timedelta(days=1)).strftime("%Y-%m-%d")
YesterdayKey(now) == StrfYmd(now - 1)

\* previous[os_name].get(key): None when the key is missing
GetNone(d, k) == IF k \in DOMAIN d THEN d[k] ELSE "<None>"

RECURSIVE FieldLoop(_, _, _, _)
\* "for key in vals": the first differing field appends one line and breaks
FieldLoop(os_name, vals, prev, i) ==
    IF i > Len(FIELDS) THEN << >>
    ELSE IF FIELDS[i] \in DOMAIN vals /\ vals[FIELDS[i]] # GetNone(prev, FIELDS[i])
         THEN <<ChangeLine(os_name, vals)>>
         ELSE FieldLoop(os_name, vals, prev, i + 1)

RECURSIVE PlatformLoop(_, _, _)
\* "for os_name, vals in current_data.items()", in the dict's key order
PlatformLoop(previous, current_data, i) ==
    IF i > Len(PLATFORMS) THEN << >>
    ELSE LET os_name == PLATFORMS[i] IN
         IF os_name \notin DOMAIN current_data
         THEN PlatformLoop(previous, current_data, i + 1)
         ELSE IF os_name \notin DOMAIN previous
         THEN <<ChangeLine(os_name, current_data[os_name])>>
                  \o PlatformLoop(previous, current_data, i + 1)
         ELSE FieldLoop(os_name, current_data[os_name], previous[os_name], 1)
                  \o PlatformLoop(previous, current_data, i + 1)

\* detect_changes(history, current_data) with datetime.now() = now
detect_changes(history, current_data, now) ==
    LET yesterday == YesterdayKey(now)
        previous == IF yesterday \in DOMAIN history THEN history[yesterday]
                    ELSE EmptyDict
    IN  PlatformLoop(previous, current_data, 1)

NoChangesLine == <<"No new updates in the past 24 hours.">>

\* summary = "\n".join(changes) if changes else "No new updates ..."
Summary(changes) == IF changes # << >> THEN changes ELSE <<NoChangesLine>>

(***************************************************************************)
(* Sample inputs.                                                          *)
(***************************************************************************)
Feed(items) == [status |-> "ok", items |-> items]

FeedError == [status |-> "error", items |-> << >>]

MacBeta == Item(TRUE, "macOS", TRUE, "macOS 26.2 beta 2 (25C5037c)", "05 Jan 2026")

MacStable == Item(TRUE, "macOS", FALSE, "26.1", "-")

MacStableOld == Item(TRUE, "macOS", FALSE, "26.0", "-")

PadBeta == Item(TRUE, "iPadOS", TRUE, "iPadOS 26.2 beta 2 (23C5033h)", "05 Jan 2026")

PadStable == Item(TRUE, "iPadOS", FALSE, "26.1", "-")

PadBetaBadDate == Item(TRUE, "iPadOS", TRUE, "iPadOS 26.2 beta 2 (23C5033h)", "unparsable")

OtherNews == Item(TRUE, "other", FALSE, "Get ready with the latest beta releases", "-")

Untitled == Item(FALSE, "other", FALSE, "", "-")

AppleFeeds ==
    { FeedError,
      Feed(<< >>),
      Feed(<<OtherNews, MacBeta, PadBeta, MacStable, PadStable, MacStableOld>>),
      Feed(<<MacStable, OtherNews>>),
      Feed(<<MacStable, PadBetaBadDate>>),
      Feed(<<MacStable, Untitled>>) }

WindowsPages == {"error", "no heading", "no match", "Windows 11, version 25H2"}

Entry(channel, milestone, beta_promotion, branch_point) ==
    [channel |-> channel, milestone |-> milestone,
     beta_promotion |-> beta_promotion, branch_point |-> branch_point]

Json(entries) == [status |-> "json", entries |-> entries]

ChromeResponses ==
    { [status |-> "error", entries |-> << >>],
      [status |-> "not json", entries |-> << >>],
      Json(<< >>),
      Json(<<Entry("stable", "141", "2025-12-02", Missing),
             Entry("beta", "142", "2026-01-06", "2025-12-02")>>),
      Json(<<Entry("beta", "142", Missing, "2025-12-02")>>),
      Json(<<Entry("beta", Missing, "", "")>>),
      Json(<<Entry("stable", "141", Missing, Missing),
             Entry("beta", "142", "early January", Missing)>>) }

ScrapeInputs == [feed : AppleFeeds, page : WindowsPages, resp : ChromeResponses]

NoInputs == [feed |-> FeedError, page |-> "error",
             resp |-> [status |-> "error", entries |-> << >>]]

\* what the scrapers deliver in the runs of main(): everything observed, only
\* a macOS stable version observed, and an Apple feed that cannot be fetched
InputsFull ==
    [feed |-> Feed(<<OtherNews, MacBeta, PadBeta, MacStable, PadStable, MacStableOld>>),
     page |-> "Windows 11, version 25H2",
     resp |-> Json(<<Entry("stable", "141", "2025-12-02", Missing),
                     Entry("beta", "142", "2026-01-06", "2025-12-02")>>)]

InputsSparse ==
    [feed |-> Feed(<<MacStable, OtherNews>>), page |-> "Windows 11, version 25H2",
     resp |-> [status |-> "error", entries |-> << >>]]

InputsAppleDown == [InputsFull EXCEPT !.feed = FeedError]

MainInputs == {InputsFull, InputsSparse, InputsAppleDown}

\* main() lines 182-185 when no scraper raises
SnapshotOf(in) ==
    DictUpdate(DictUpdate(DictUpdate(EmptyDict,
        scrape_apple_versions(in.feed).value),
        scrape_windows_versions(in.page).value),
        scrape_chromeos_versions(in.resp).value)

\* the snapshots save_history is exercised with; a dict is modelled as a
\* function, json.dump followed by json.load gives back an equal dict of
\* string keys and string values
StoreSnapshots == {SnapshotOf(InputsFull), SnapshotOf(InputsSparse)}

(***************************************************************************)
(* State.                                                                  *)
(***************************************************************************)
VARIABLES
    file,      \* data/os_versions.json
    clock,     \* the day datetime.now() returns
    pc,        \* the next step of main()
    inputs,    \* what the three fetches of this run deliver
    data,      \* main(): data
    history,   \* main(): history
    changes,   \* main(): changes
    summary,   \* main(): summary, as its sequence of lines
    pending,   \* save_history(): history, between open() and json.dump()
    runDay,    \* the day detect_changes read from the clock, 0 before it ran
    prevRun,   \* day, data and changes of the last earlier run that detected
    seen,      \* the days of all completed save_history calls
    last       \* the last save_history call: its arguments, whether it
               \* raised, and how many dates later than its own the store
               \* held before it

vars == <<file, clock, pc, inputs, data, history, changes, summary, pending,
          runDay, prevRun, seen, last>>

NoRun == [valid |-> FALSE, day |-> 0, data |-> EmptyDict, changes |-> << >>]

NoCall == [op |-> "none", day |-> 0, data |-> EmptyDict, raised |-> FALSE,
           later |-> 0]

InitCommon ==
    /\ file = AbsentFile
    /\ data = EmptyDict
    /\ history = EmptyDict
    /\ changes = << >>
    /\ summary = << >>
    /\ pending = EmptyDict
    /\ runDay = 0
    /\ prevRun = NoRun
    /\ seen = {}
    /\ last = NoCall

\* how many days later than day d have an entry among keys
LaterDates(keys, d) ==
    Cardinality({n \in (d + 1)..NumDays : StrfYmd(n) \in keys})

(***************************************************************************)
(* The history store on its own: save_history called with any date.        *)
(***************************************************************************)
InitStore ==
    /\ InitCommon
    /\ clock = 1
    /\ pc = "store"
    /\ inputs = NoInputs

\* one call save_history(s) while datetime.now() is day n
Save(n, s) ==
    LET r == save_history(file, n, s) IN
    /\ pc = "store"
    /\ file' = r.file
    /\ clock' = n
    /\ seen' = IF r.raised THEN seen ELSE seen \cup {n}
    /\ last' = [op |-> "save", day |-> n, data |-> s, raised |-> r.raised,
                later |-> LaterDates(DOMAIN load_history(file).value, n)]
    /\ UNCHANGED <<pc, inputs, data, history, changes, summary, pending,
                   runDay, prevRun>>

NextStore == \E n \in 1..NumDays, s \in StoreSnapshots : Save(n, s)

SpecStore == InitStore /\ [][NextStore]_vars

(***************************************************************************)
(* main(), one step per call it makes.                                     *)
(***************************************************************************)
\* data.update(scrape_apple_versions())
ScrapeApple ==
    LET r == scrape_apple_versions(inputs.feed) IN
    /\ pc = "apple"
    /\ IF r.raised THEN pc' = "raised in scrape_apple_versions" /\ data' = data
       ELSE pc' = "windows" /\ data' = DictUpdate(data, r.value)
    /\ UNCHANGED <<file, clock, inputs, history, changes, summary, pending,
                   runDay, prevRun, seen, last>>

\* data.update(scrape_windows_versions())
ScrapeWindows ==
    LET r == scrape_windows_versions(inputs.page) IN
    /\ pc = "windows"
    /\ IF r.raised THEN pc' = "raised in scrape_windows_versions" /\ data' = data
       ELSE pc' = "chromeos" /\ data' = DictUpdate(data, r.value)
    /\ UNCHANGED <<file, clock, inputs, history, changes, summary, pending,
                   runDay, prevRun, seen, last>>

\* data.update(scrape_chromeos_versions())
ScrapeChromeOS ==
    LET r == scrape_chromeos_versions(inputs.resp) IN
    /\ pc = "chromeos"
    /\ IF r.raised THEN pc' = "raised in scrape_chromeos_versions" /\ data' = data
       ELSE pc' = "load" /\ data' = DictUpdate(data, r.value)
    /\ UNCHANGED <<file, clock, inputs, history, changes, summary, pending,
                   runDay, prevRun, seen, last>>

\* history = load_history()
Load ==
    LET l == load_history(file) IN
    /\ pc = "load"
    /\ IF l.raised THEN pc' = "raised in load_history" /\ history' = history
       ELSE pc' = "detect" /\ history' = l.value
    /\ UNCHANGED <<file, clock, inputs, data, changes, summary, pending,
                   runDay, prevRun, seen, last>>

\* changes = detect_changes(history, data)
Detect ==
    /\ pc = "detect"
    /\ changes' = detect_changes(history, data, clock)
    /\ runDay' = clock
    /\ pc' = "save"
    /\ UNCHANGED <<file, clock, inputs, data, history, summary, pending,
                   prevRun, seen, last>>

\* save_history(data) up to and including open(HISTORY_FILE, "w"), which
\* empties the file
SaveOpen ==
    LET l == load_history(file) IN
    /\ pc = "save"
    /\ IF l.raised THEN pc' = "raised in save_history" /\ UNCHANGED <<file, pending>>
       ELSE /\ pending' = NewHistory(l.value, clock, data)
            /\ file' = TruncatedFile
            /\ pc' = "dump"
    /\ UNCHANGED <<clock, inputs, data, history, changes, summary, runDay,
                   prevRun, seen, last>>

\* json.dump(history, f, indent=2) and the close at the end of the with block
SaveDump ==
    /\ pc = "dump"
    /\ file' = JsonFile(pending)
    /\ pc' = "report"
    /\ UNCHANGED <<clock, inputs, data, history, changes, summary, pending,
                   runDay, prevRun, seen, last>>

\* the table, the summary and send_email
Report ==
    /\ pc = "report"
    /\ summary' = Summary(changes)
    /\ pc' = "done"
    /\ UNCHANGED <<file, clock, inputs, data, history, changes, pending,
                   runDay, prevRun, seen, last>>

\* main() ended by an exception no caller catches
RaisedIn == {"raised in scrape_apple_versions", "raised in scrape_windows_versions",
             "raised in scrape_chromeos_versions", "raised in load_history",
             "raised in save_history"}

Running == {"apple", "windows", "chromeos", "load", "detect", "save", "dump", "report"}

\* the process is killed (or the machine stops) in the middle of a run
Kill ==
    /\ pc \in Running
    /\ pc' = "killed"
    /\ UNCHANGED <<file, clock, inputs, data, history, changes, summary,
                   pending, runDay, prevRun, seen, last>>

\* midnight passes
Tick ==
    /\ pc # "store"
    /\ clock < MaxDay
    /\ clock' = clock + 1
    /\ UNCHANGED <<file, pc, inputs, data, history, changes, summary, pending,
                   runDay, prevRun, seen, last>>

\* the scheduler starts the next run: a new process, nothing kept but the file
NextRun ==
    /\ pc \in {"done", "killed"} \cup RaisedIn
    /\ pc' = "apple"
    /\ inputs' \in MainInputs
    /\ data' = EmptyDict
    /\ history' = EmptyDict
    /\ changes' = << >>
    /\ summary' = << >>
    /\ pending' = EmptyDict
    /\ runDay' = 0
    /\ prevRun' = IF runDay # 0
                  THEN [valid |-> TRUE, day |-> runDay, data |-> data,
                        changes |-> changes]
                  ELSE prevRun
    /\ UNCHANGED <<file, clock, seen, last>>

InitMain ==
    /\ InitCommon
    /\ clock = 1
    /\ pc = "apple"
    /\ inputs \in MainInputs

NextMain ==
    \/ ScrapeApple \/ ScrapeWindows \/ ScrapeChromeOS
    \/ Load \/ Detect \/ SaveOpen \/ SaveDump \/ Report
    \/ Kill \/ Tick \/ NextRun

SpecMain == InitMain /\ [][NextMain]_vars

(***************************************************************************)
(* The scrapers on drawn inputs: main() lines 182-185.                     *)
(***************************************************************************)
InitScrape ==
    /\ InitCommon
    /\ clock = 1
    /\ pc = "apple"
    /\ inputs \in ScrapeInputs

NextScrape == ScrapeApple \/ ScrapeWindows \/ ScrapeChromeOS

SpecScrape == InitScrape /\ [][NextScrape]_vars

(***************************************************************************)
(* Change detection on drawn inputs: main() from line 187 on, started with *)
(* a drawn history file and a drawn snapshot.                              *)
(***************************************************************************)
DiffRecs == {SentinelRec,
             Rec("26.1", "26.2 beta 2", "05 Jan 2026"),
             Rec("26.1", "26.2 beta 2", "12 Jan 2026")}

DiffSnapshots == [PlatformSet -> DiffRecs]

OlderSnapshot == [p \in PlatformSet |-> Rec("26.0", "-", "-")]

\* histories with or without an entry for yesterday, with or without an
\* entry for the day before
DiffHistories ==
    {EmptyDict, [k \in {StrfYmd(DiffToday - 2)} |-> OlderSnapshot]}
    \cup {[k \in {StrfYmd(DiffToday - 1)} |-> y] : y \in DiffSnapshots}
    \cup {[k \in {StrfYmd(DiffToday - 2), StrfYmd(DiffToday - 1)} |->
              IF k = StrfYmd(DiffToday - 1) THEN y ELSE OlderSnapshot] :
          y \in DiffSnapshots}

InitDiff ==
    /\ \E h \in DiffHistories :
          file = IF h = EmptyDict THEN AbsentFile ELSE JsonFile(h)
    /\ data \in DiffSnapshots
    /\ clock = DiffToday
    /\ pc = "load"
    /\ inputs = NoInputs
    /\ history = EmptyDict
    /\ changes = << >>
    /\ summary = << >>
    /\ pending = EmptyDict
    /\ runDay = 0
    /\ prevRun = NoRun
    /\ seen = {}
    /\ last = NoCall

NextDiff == Load \/ Detect \/ SaveOpen \/ SaveDump \/ Report

SpecDiff == InitDiff /\ [][NextDiff]_vars

(***************************************************************************)
(* Properties of the history store (SpecStore).                            *)
(***************************************************************************)
\* the days of S that have fewer than KEEP_DAYS later days in S
MostRecent(S) == {n \in S : Cardinality({m \in S : m > n}) < KEEP_DAYS}

SaveDone == last.op = "save" /\ ~last.raised

\* C1: after any sequence of save calls, with any dates in any order, the
\* persisted history has at most KEEP_DAYS entries and its keys are exactly
\* the KEEP_DAYS most recent calendar dates ever saved
C1_Retention ==
    /\ file.st = "absent" => seen = {}
    /\ file.st = "json" =>
          /\ Cardinality(DOMAIN file.hist) <= KEEP_DAYS
          /\ DOMAIN file.hist = {StrfYmd(n) : n \in MostRecent(seen)}

\* an out-of-order save into a store that has seen more than KEEP_DAYS dates:
\* the date saved last is the earliest one ever saved
C1_Witness ==
    /\ SaveDone /\ file.st = "json"
    /\ Cardinality(seen) > KEEP_DAYS
    /\ \A m \in seen : last.day <= m

\* C2 as stated: after every completed save(H, d, S), load returns a history
\* holding S at key d
C2_RoundTripAlways ==
    SaveDone =>
        LET l == load_history(file) IN
        /\ ~l.raised
        /\ StrfYmd(last.day) \in DOMAIN l.value
        /\ l.value[StrfYmd(last.day)] = last.data

\* C2 amended: after every completed save(H, d, S) where H holds fewer than
\* KEEP_DAYS dates later than d, load returns a history holding S at key d
C2_RoundTrip ==
    (SaveDone /\ last.later < KEEP_DAYS) =>
        LET l == load_history(file) IN
        /\ ~l.raised
        /\ StrfYmd(last.day) \in DOMAIN l.value
        /\ l.value[StrfYmd(last.day)] = last.data

\* a save into a store that already held KEEP_DAYS dates, some of them (but
\* fewer than KEEP_DAYS) later than the saved one
C2_Witness ==
    /\ SaveDone
    /\ Cardinality(seen) > KEEP_DAYS
    /\ last.later > 0 /\ last.later < KEEP_DAYS
    /\ file.hist[StrfYmd(last.day)] = last.data

\* C8: in the state a completed save call leaves, calling save again with
\* the same date and the same snapshot leaves the persisted history as it is
C8_Idempotent ==
    SaveDone =>
        LET again == save_history(file, last.day, last.data) IN
        ~again.raised /\ again.file = file

\* the state after a save into a full store, in which the same call can be
\* made again: the entry is there, with KEEP_DAYS entries in all
C8_Witness ==
    /\ SaveDone
    /\ Cardinality(DOMAIN file.hist) = KEEP_DAYS
    /\ StrfYmd(last.day) \in DOMAIN file.hist
    /\ file.hist[StrfYmd(last.day)] = last.data

(***************************************************************************)
(* Properties of change detection and the summary (SpecDiff).              *)
(***************************************************************************)
AllSentinel == [p \in PlatformSet |-> SentinelRec]

\* the baseline the specification describes: the entry for the day before
\* day d, the all-sentinel snapshot when there is none
Baseline(h, d) ==
    IF StrfYmd(d - 1) \in DOMAIN h THEN h[StrfYmd(d - 1)] ELSE AllSentinel

\* the platforms, in platform order, whose record differs from the baseline's
ChangedPlatforms(h, cur, d) ==
    LET Differs(p) == cur[p] # Baseline(h, d)[p]
    IN  SelectSeq(PLATFORMS, Differs)

\* the platforms the lines of a change list (or summary) are about
LinePlatforms(lines) == [i \in 1..Len(lines) |-> lines[i][2]]

\* C3: the diff is empty if and only if the snapshot equals the entry for
\* the day before, or the all-sentinel baseline when that entry is absent
C3_EmptyIffEqualsBaseline ==
    runDay # 0 => ((changes = << >>) <=> (data = Baseline(history, runDay)))

\* C4: the baseline is the entry keyed today-1 and, when it is absent, the
\* all-sentinel snapshot (never an older entry): the platforms reported are
\* exactly those whose record differs from that baseline
C4_BaselineSelection ==
    runDay # 0 =>
        /\ LinePlatforms(changes) = ChangedPlatforms(history, data, runDay)
        /\ \A i \in 1..Len(changes) :
              changes[i] = ChangeLine(changes[i][2], data[changes[i][2]])

\* C9: the summary has exactly one line, in platform order, for each platform
\* with at least one changed field and none for the others; with no change
\* at all it is the single "no changes" line
C9_SummaryLines ==
    pc = "done" =>
        IF ChangedPlatforms(history, data, runDay) = << >>
        THEN summary = <<NoChangesLine>>
        ELSE /\ NoChangesLine \notin {summary[i] : i \in 1..Len(summary)}
             /\ LinePlatforms(summary) = ChangedPlatforms(history, data, runDay)

(***************************************************************************)
(* Properties of the scrapers (SpecScrape).                                *)
(***************************************************************************)
\* C6: whatever the fetches deliver, building the snapshot never raises, the
\* snapshot has the four platforms with the three fields each, and a
\* platform whose fetch failed has "-" in every field
C6_SnapshotComplete ==
    /\ pc \notin RaisedIn
    /\ pc = "load" =>
          /\ DOMAIN data = PlatformSet
          /\ \A p \in PlatformSet : DOMAIN data[p] = FieldSet
          /\ inputs.feed.status = "error" =>
                data["macOS"] = SentinelRec /\ data["iPadOS"] = SentinelRec
          /\ inputs.page = "error" => data["Windows"] = SentinelRec
          /\ inputs.resp.status = "error" => data["ChromeOS"] = SentinelRec

(***************************************************************************)
(* Properties of the runs of main() (SpecMain).                            *)
(***************************************************************************)
\* C5: at no point of a save, and after no crash, is the store empty,
\* truncated or partly written: loading it gives the complete prior history
\* or the complete new one
C5_AtomicPersist ==
    LET l == load_history(file) IN
    /\ ~l.raised
    /\ pc = "dump" => l.value \in {history, pending}

\* C7: load returns the empty history when the file is absent and when it is
\* unreadable, it never raises, and the run goes on to diff and save
C7_LoadTotal ==
    /\ pc \notin {"raised in load_history", "raised in save_history"}
    /\ (pc = "detect" /\ file.st # "json") => history = EmptyDict

\* C10: a run that detects on the same day and with the same snapshot as an
\* earlier run produces the same change list as that run
C10_SameDaySameChanges ==
    (runDay # 0 /\ prevRun.valid /\ prevRun.day = runDay /\ prevRun.data = data)
        => changes = prevRun.changes

\* the second run of a day, after the first run saved today's entry: there
\* is an entry for yesterday, and some but not all platforms changed
C10_Witness ==
    /\ runDay # 0 /\ prevRun.valid
    /\ prevRun.day = runDay /\ prevRun.data = data
    /\ StrfYmd(runDay) \in DOMAIN history
    /\ history[StrfYmd(runDay)] = data
    /\ StrfYmd(runDay - 1) \in DOMAIN history
    /\ changes # << >> /\ Len(changes) < Len(PLATFORMS)

====
